---- MODULE Spec2Model ----
(***************************************************************************)
(* Model of source/image/ImageBuffer.cpp: the pixel buffer (Clear,         *)
(* Allocate, Begin, ShrinkToHalfSize), the Read dispatcher, the PNG and    *)
(* JPEG decoders' allocate/validate/write sequence, and Premultiply.       *)
(*                                                                         *)
(* A pixel is the tuple <<b0, b1, b2, b3>> of its four bytes in memory     *)
(* order (little-endian build: b3 is the top byte of the uint32_t, the     *)
(* alpha).  The 32-bit word itself does not fit TLC's integers, so the     *)
(* word arithmetic of Premultiply is done on the low 24 bits and the alpha *)
(* byte separately.  Indet marks a word of storage that `new uint32_t[n]`  *)
(* left uninitialized.                                                     *)
(***************************************************************************)
EXTENDS Integers, Sequences, FiniteSets, TLC

VARIABLES width, height, frames, pixels, status, call, ops

vars == <<width, height, frames, pixels, status, call, ops>>

\* ----------------------------------------------------------------- bounds
\* Largest image / buffer dimension and frame count of the lifecycle model,
\* and the number of calls made on one buffer.
MaxDim == 2
MaxFrames == 2
MaxOps == 2
\* Largest dimension, frame count and number of fill patterns of the
\* downscaler model.
MaxShrinkDim == 5
MaxShrinkFrames == 2
NumPatterns == 3

\* ------------------------------------------------------ program constants
PNG_EXTENSIONS == {".png"}
JPG_EXTENSIONS == {".jpg", ".jpeg", ".jpe"}
\* The modes that reach Premultiply (Read never passes PREMULTIPLIED_ALPHA).
PremultiplyModes == {"DEFAULT", "ADDITIVE", "HALF_ADDITIVE"}
\* An extension of neither family stands for every unsupported one.
Extensions == PNG_EXTENSIONS \cup JPG_EXTENSIONS \cup {".txt"}

BlendingModes == {"DEFAULT", "PREMULTIPLIED_ALPHA", "ADDITIVE", "HALF_ADDITIVE"}

\* What the file holds, as far as the decoders can tell:
\*   missing   - Files::Open gives no stream / Files::Read gives no bytes
\*   invalid   - the codec signals an error before the header is parsed
\*   truncated - the header parses, the codec signals an error while rows
\*               are being read (PNG only: libjpeg's standard error manager
\*               ends the process on every error)
\*   ok        - the whole image decodes
Sources == {"missing", "invalid", "truncated", "ok"}

Null == [held |-> FALSE, data |-> <<>>]
Indet == <<-1, -1, -1, -1>>
GarbageWords == {<<0, 0, 0, 0>>, <<255, 255, 255, 255>>}

Buffer == [width |-> width, height |-> height, frames |-> frames, pixels |-> pixels]

\* The values a buffer takes.  The operators below that walk the storage are
\* functions over it behind an operator of the source's name: a function is
\* applied to the value of its argument, an operator to the expression.
BufferType ==
    [width : Nat, height : Nat, frames : Nat, pixels : [held : BOOLEAN, data : Seq(Seq(Int))]]

\* The last call: the operation, what it consumed of its inputs (fmt: the
\* family Read found the extension in; hdr, w, h: whether a decoder got the
\* header's dimensions, and these; frame: the frame of the rows handed to the
\* codec; blend: the blending mode, once Read looks at it; alloc: whether the
\* call reached `new`, and whether `new` then threw) and what it produced (ret,
\* the errors logged, the offsets the codec wrote, the number of Premultiply
\* calls).
NoCall ==
    [op |-> "new", fmt |-> "", blend |-> "", hdr |-> FALSE, w |-> 0, h |-> 0,
     frame |-> 0, alloc |-> "none", ret |-> "void", logs |-> <<>>, wrote |-> {},
     premul |-> 0]

\* ------------------------------------------------------------- arithmetic
\* a & b and a | b, bit by bit from the lowest.
BitAndF[a \in Nat, b \in Nat] ==
    IF a = 0 \/ b = 0 THEN 0
    ELSE (a % 2) * (b % 2) + 2 * BitAndF[a \div 2, b \div 2]

BitOrF[a \in Nat, b \in Nat] ==
    IF a = 0 THEN b
    ELSE IF b = 0 THEN a
    ELSE (IF a % 2 = 1 \/ b % 2 = 1 THEN 1 ELSE 0) + 2 * BitOrF[a \div 2, b \div 2]

BitAnd(a, b) == BitAndF[a, b]
BitOr(a, b) == BitOrF[a, b]

\* floor(a * b / d) of the 64-bit product, without forming the product (it
\* exceeds TLC's integers): a = q*d + r gives a*b/d = q*b + r*b/d.
MulDivF[a \in Nat, b \in Nat, d \in Nat] == (a \div d) * b + ((a % d) * b) \div d
MulDiv(a, b, d) == MulDivF[a, b, d]

\* The low 24 bits of the word of a pixel, and the pixel of a word given as
\* its alpha byte and its low 24 bits.
Low24(px) == px[1] + 256 * px[2] + 65536 * px[3]
PixelOfF[alpha \in Nat, low \in Nat] ==
    <<low % 256, (low \div 256) % 256, (low \div 65536) % 256, alpha>>
PixelOf(alpha, low) == PixelOfF[alpha, low]

\* ----------------------------------------------------------------- buffer
\* ImageBuffer::ImageBuffer(frames)
NewBuffer(f) == [width |-> 0, height |-> 0, frames |-> f, pixels |-> Null]

\* Clear without the release of the storage.
ClearKeepsStorage(b, f) == [b EXCEPT !.frames = f]

\* ImageBuffer::Clear(frames)
Clear(b, f) == [b EXCEPT !.pixels = Null, !.frames = f]

\* Allocate without the test of `pixels`: it allocates again over storage it
\* already holds.
AllocateGuardIgnoresStorage(b, w, h) == ~(w = 0 \/ h = 0 \/ b.frames = 0)

\* Whether Allocate gets as far as `new uint32_t[...]`.
AllocateGuard(b, w, h) == ~(b.pixels.held \/ w = 0 \/ h = 0 \/ b.frames = 0)

\* ImageBuffer::Allocate(width, height), when `new` succeeds.
Allocate(b, w, h) ==
    IF ~AllocateGuard(b, w, h) THEN b
    ELSE [b EXCEPT !.pixels = [held |-> TRUE, data |-> [i \in 1 .. w * h * b.frames |-> Indet]],
                   !.width = w,
                   !.height = h]

\* Begin with a frame taken to be one row high.
BeginIgnoresHeight(b, y, frame) == b.width * (y + frame)

\* ImageBuffer::Begin(y, frame): the offset, in pixels, from `pixels`.
Begin(b, y, frame) == b.width * (y + b.height * frame)

\* -------------------------------------------------------------- Premultiply
\* The body of Premultiply's inner loop on the word with alpha byte `alpha`
\* and low 24 bits `low`; mode 1 is HALF_ADDITIVE, 2 ADDITIVE, 0 any other.
PremultiplyWord[alpha \in Nat, low \in Nat, mode \in Nat] ==
    LET red == BitAnd(MulDiv(BitAnd(low, 16711680), alpha, 255), 16711680)
        green == BitAnd(MulDiv(BitAnd(low, 65280), alpha, 255), 65280)
        blue == BitAnd(MulDiv(BitAnd(low, 255), alpha, 255), 255)
        value == BitOr(BitOr(red, green), blue)
        alpha2 == IF mode = 1 THEN alpha \div 4 ELSE alpha
    IN  IF mode # 2 THEN PixelOf(alpha2, value) ELSE PixelOf(0, value)

\* Premultiply with the division by 255 done as a shift by 8 bits.
PremultiplyPixelShift(px, blend) ==
    <<(px[1] * px[4]) \div 256, (px[2] * px[4]) \div 256, (px[3] * px[4]) \div 256,
      IF blend = "ADDITIVE" THEN 0 ELSE IF blend = "HALF_ADDITIVE" THEN px[4] \div 4 ELSE px[4]>>

PremultiplyPixel(px, blend) ==
    PremultiplyWord[px[4], Low24(px),
                    IF blend = "HALF_ADDITIVE" THEN 1 ELSE IF blend = "ADDITIVE" THEN 2 ELSE 0]

\* The offsets Premultiply visits: buffer.Width() pixels from Begin(y, frame)
\* for every y below buffer.Height().
PremultiplyOffsets(b, frame) ==
    {Begin(b, y, frame) + x : y \in 0 .. b.height - 1, x \in 0 .. b.width - 1}

\* Premultiply(buffer, frame, blend)
PremultiplyF[b \in BufferType, frame \in Nat, blend \in STRING] ==
    [b EXCEPT !.pixels.data =
        [i \in 1 .. Len(b.pixels.data) |->
            IF (i - 1) \in PremultiplyOffsets(b, frame)
            THEN PremultiplyPixel(b.pixels.data[i], blend)
            ELSE b.pixels.data[i]]]

Premultiply(b, frame, blend) == PremultiplyF[b, frame, blend]

\* ---------------------------------------------------------------- decoders
\* The pixel (x, y) of the image as the codec delivers it: RGBA bytes, the
\* alpha of a JPEG always 255 (JCS_EXT_RGBA), that of a PNG as stored (here
\* one that varies over the image).
DecodedPixel(isJPG, x, y) ==
    <<200 - 60 * x, 100 + 50 * y, 255 - 17 * (x + y),
      IF isJPG THEN 255 ELSE 64 + 63 * x + 10 * y>>

\* The offsets of rows 0 .. nrows-1 handed to the codec: rows[y] = Begin(y, frame),
\* each row w pixels long.
RowOffsets(b, frame, w, nrows) ==
    {Begin(b, y, frame) + x : y \in 0 .. nrows - 1, x \in 0 .. w - 1}

\* png_read_image / jpeg_read_scanlines writing rows 0 .. nrows-1 of the image.
WriteRowsF[b \in BufferType, frame \in Nat, isJPG \in BOOLEAN, w \in Nat, nrows \in Nat] ==
    [b EXCEPT !.pixels.data =
        [i \in 1 .. Len(b.pixels.data) |->
            IF (i - 1) \in RowOffsets(b, frame, w, nrows)
            THEN LET yx == CHOOSE yx \in (0 .. nrows - 1) \X (0 .. w - 1) :
                               Begin(b, yx[1], frame) + yx[2] = i - 1
                 IN  DecodedPixel(isJPG, yx[2], yx[1])
            ELSE b.pixels.data[i]]]

WriteRows(b, frame, isJPG, w, nrows) == WriteRowsF[b, frame, isJPG, w, nrows]

\* The dimension check with `else if` before the test of the height: a wrong
\* height is logged only when the width is right.
MismatchLogsElseIf(b, w, h) ==
    IF w # 0 /\ w # b.width THEN <<"width">>
    ELSE IF h # 0 /\ h # b.height THEN <<"height">>
    ELSE <<>>

\* The errors the dimension check logs: one per dimension that is nonzero
\* and differs from the buffer's.
MismatchLogs(b, w, h) ==
    (IF w # 0 /\ w # b.width THEN <<"width">> ELSE <<>>)
    \o (IF h # 0 /\ h # b.height THEN <<"height">> ELSE <<>>)

\* The part ReadPNG and ReadJPG share after Allocate has returned: the
\* dimension check and the rows handed to the codec.  nrows is the number of
\* rows the codec writes before it returns (ret "true") or signals an error
\* (ret "false", PNG only).  A write through a null `pixels` ends the process.
CheckAndWriteF[b1 \in BufferType, isJPG \in BOOLEAN, w, h, nrows, frame \in Nat, ret \in STRING] ==
    IF w = 0 \/ h = 0 \/ w # b1.width \/ h # b1.height
    THEN [buf |-> b1, ret |-> "false", logs |-> MismatchLogs(b1, w, h), wrote |-> {}]
    ELSE IF ~b1.pixels.held
    THEN [buf |-> b1, ret |-> IF nrows = 0 THEN ret ELSE "crash", logs |-> <<>>, wrote |-> {}]
    ELSE [buf |-> WriteRows(b1, frame, isJPG, w, nrows), ret |-> ret,
          logs |-> <<>>, wrote |-> RowOffsets(b1, frame, w, nrows)]

CheckAndWrite(b1, isJPG, w, h, nrows, frame, ret) ==
    CheckAndWriteF[b1, isJPG, w, h, nrows, frame, ret]

\* The catch of bad_alloc without the rethrow: the decoder logs and returns
\* false.
DecodeIntoSwallowsBadAlloc(b, isJPG, w, h, nrows, frame, allocOK, ret) ==
    IF AllocateGuard(b, w, h) /\ ~allocOK
    THEN [buf |-> b, ret |-> "false", logs |-> <<"alloc">>, wrote |-> {}]
    ELSE CheckAndWrite(Allocate(b, w, h), isJPG, w, h, nrows, frame, ret)

\* Allocate inside its try block, the catch of bad_alloc, and the rest.
DecodeInto(b, isJPG, w, h, nrows, frame, allocOK, ret) ==
    IF AllocateGuard(b, w, h) /\ ~allocOK
    THEN [buf |-> b, ret |-> "throw", logs |-> <<"alloc">>, wrote |-> {}]
    ELSE CheckAndWrite(Allocate(b, w, h), isJPG, w, h, nrows, frame, ret)

\* ReadPNG(path, buffer, frame)
ReadPNG(b, src, w, h, cut, frame, allocOK) ==
    IF src \in {"missing", "invalid"}
    THEN [buf |-> b, ret |-> "false", logs |-> <<>>, wrote |-> {}]
    ELSE IF src = "truncated"
    THEN DecodeInto(b, FALSE, w, h, cut, frame, allocOK, "false")
    ELSE DecodeInto(b, FALSE, w, h, h, frame, allocOK, "true")

\* ReadJPG(path, buffer, frame)
ReadJPG(b, src, w, h, frame, allocOK) ==
    IF src = "missing"
    THEN [buf |-> b, ret |-> "false", logs |-> <<>>, wrote |-> {}]
    ELSE IF src = "invalid"
    THEN [buf |-> b, ret |-> "exit", logs |-> <<>>, wrote |-> {}]
    ELSE DecodeInto(b, TRUE, w, h, h, frame, allocOK, "true")

\* Read premultiplying a JPEG for HALF_ADDITIVE as it does for ADDITIVE.
NeedsPremultiplyAnyAdditive(isPNG, isJPG, blend) ==
    blend # "PREMULTIPLIED_ALPHA"
    /\ (isPNG \/ (isJPG /\ blend \in {"ADDITIVE", "HALF_ADDITIVE"}))

\* Whether Read goes on to Premultiply after a successful decode.
NeedsPremultiply(isPNG, isJPG, blend) ==
    blend # "PREMULTIPLIED_ALPHA" /\ (isPNG \/ (isJPG /\ blend = "ADDITIVE"))

\* What a decoder hands back to Read.
DecodeResult == [buf : BufferType, ret : STRING, logs : Seq(STRING), wrote : SUBSET Nat]

\* ImageBuffer::Read(data, frame), from the decoder's return on.
AfterDecodeF[r \in DecodeResult, isPNG, isJPG \in BOOLEAN, blend \in STRING, frame \in Nat] ==
    IF r.ret # "true"
    THEN [buf |-> r.buf, ret |-> r.ret, logs |-> r.logs, wrote |-> r.wrote, premul |-> 0]
    ELSE IF NeedsPremultiply(isPNG, isJPG, blend)
    THEN [buf |-> Premultiply(r.buf, frame, blend), ret |-> "true", logs |-> r.logs,
          wrote |-> r.wrote, premul |-> 1]
    ELSE [buf |-> r.buf, ret |-> "true", logs |-> r.logs, wrote |-> r.wrote, premul |-> 0]

AfterDecode(r, isPNG, isJPG, blend, frame) == AfterDecodeF[r, isPNG, isJPG, blend, frame]

\* ImageBuffer::Read(data, frame)
Read(b, ext, blend, src, w, h, cut, frame, allocOK) ==
    LET isPNG == ext \in PNG_EXTENSIONS
        isJPG == ext \in JPG_EXTENSIONS
    IN  IF ~isPNG /\ ~isJPG
        THEN [buf |-> b, ret |-> "false", logs |-> <<>>, wrote |-> {}, premul |-> 0]
        ELSE IF isPNG
        THEN AfterDecode(ReadPNG(b, src, w, h, cut, frame, allocOK),
                         isPNG, isJPG, blend, frame)
        ELSE AfterDecode(ReadJPG(b, src, w, h, frame, allocOK),
                         isPNG, isJPG, blend, frame)

\* -------------------------------------------------------- ShrinkToHalfSize
\* Byte i of the storage (reinterpret_cast<unsigned char *>(pixels)); a byte
\* of an uninitialized word reads as the matching byte of g.
ByteAt(data, g, i) ==
    LET px == data[i \div 4 + 1]
    IN  IF px = Indet THEN g[(i % 4) + 1] ELSE px[(i % 4) + 1]

\* The byte written to out[o]: o counts the channels of the output pixels in
\* the order the loops visit them, line y of result.height * frames lines,
\* result.width pixels per line.
ShrinkByte(b, rw, g, o) ==
    LET channel == o % 4
        x == (o \div 4) % rw
        y == (o \div 4) \div rw
        aIt == (4 * b.width) * (2 * y) + 8 * x + channel
        bIt == (4 * b.width) * (2 * y + 1) + 8 * x + channel
    IN  (ByteAt(b.pixels.data, g, aIt) + ByteAt(b.pixels.data, g, bIt)
         + ByteAt(b.pixels.data, g, aIt + 4) + ByteAt(b.pixels.data, g, bIt + 4) + 2) \div 4

\* ImageBuffer::ShrinkToHalfSize().  allocOK: whether result.Allocate's `new`
\* succeeds.  Reading through a null `pixels` ends the process.
ShrinkToHalfSizeF[b \in BufferType, g \in Seq(Int), allocOK \in BOOLEAN] ==
    LET empty == NewBuffer(b.frames)
        result == Allocate(empty, b.width \div 2, b.height \div 2)
    IN  IF AllocateGuard(empty, b.width \div 2, b.height \div 2) /\ ~allocOK
        THEN [buf |-> b, ret |-> "throw"]
        ELSE IF result.pixels.held /\ ~b.pixels.held
        THEN [buf |-> b, ret |-> "crash"]
        ELSE [buf |-> [b EXCEPT
                  !.width = result.width,
                  !.height = result.height,
                  !.pixels = [held |-> result.pixels.held,
                              data |-> [p \in 1 .. Len(result.pixels.data) |->
                                  <<ShrinkByte(b, result.width, g, 4 * (p - 1)),
                                    ShrinkByte(b, result.width, g, 4 * (p - 1) + 1),
                                    ShrinkByte(b, result.width, g, 4 * (p - 1) + 2),
                                    ShrinkByte(b, result.width, g, 4 * (p - 1) + 3)>>]]],
              ret |-> "void"]

ShrinkToHalfSize(b, g, allocOK) == ShrinkToHalfSizeF[b, g, allocOK]

\* ------------------------------------------------------------------ state
\* After `ImageBuffer buffer(frames)`.
Init ==
    /\ \E f \in 0 .. MaxFrames :
        /\ width = NewBuffer(f).width
        /\ height = NewBuffer(f).height
        /\ frames = NewBuffer(f).frames
        /\ pixels = NewBuffer(f).pixels
    /\ status = "running"
    /\ call = NoCall
    /\ ops = 0

SetBuffer(b) ==
    /\ width' = b.width
    /\ height' = b.height
    /\ frames' = b.frames
    /\ pixels' = b.pixels

\* How a call ends: it returns (or throws to its caller), or the process ends.
StatusAfter(ret) ==
    IF ret = "exit" THEN "exited" ELSE IF ret = "crash" THEN "crashed" ELSE "running"

\* A call can be made while the process runs; the model stops after MaxOps.
CanCall ==
    /\ status = "running"
    /\ ops < MaxOps

Max(a, b) == IF a >= b THEN a ELSE b

\* The family Read finds the extension in.
FormatOf(ext) ==
    IF ext \in PNG_EXTENSIONS THEN "png"
    ELSE IF ext \in JPG_EXTENSIONS THEN "jpg"
    ELSE "none"

\* The inputs of a Read, each drawn only where the code looks at it: an
\* unsupported extension reads nothing of the file, a file whose header does
\* not parse reports no dimensions, `new` is reached only when AllocateGuard
\* holds, the rows (the frame, the row a truncated PNG stops at) are looked
\* at only once the dimension check has passed, and the blending mode only
\* once the decoder has returned true.
SourcesOf(ext) ==
    IF ext \in PNG_EXTENSIONS THEN Sources
    ELSE IF ext \in JPG_EXTENSIONS THEN Sources \ {"truncated"}
    ELSE {""}
HeaderParsed(src) == src \in {"truncated", "ok"}
DimsOf(src) == IF HeaderParsed(src) THEN 0 .. MaxDim ELSE {0}
AllocOutcomes(b, w, h) == IF AllocateGuard(b, w, h) THEN BOOLEAN ELSE {TRUE}
AllocNote(reached, allocOK) == IF ~reached THEN "none" ELSE IF allocOK THEN "ok" ELSE "failed"
CheckPasses(b, w, h) == w # 0 /\ h # 0 /\ w = Allocate(b, w, h).width /\ h = Allocate(b, w, h).height
ReachesRows(b, src, w, h, allocOK) == HeaderParsed(src) /\ allocOK /\ CheckPasses(b, w, h)
FramesOf(b, reaches) == IF reaches THEN 0 .. Max(b.frames - 1, 0) ELSE {0}
CutsOf(src, h, reaches) == IF reaches /\ src = "truncated" THEN 0 .. Max(h - 1, 0) ELSE {0}
BlendsOf(src, reaches) == IF reaches /\ src = "ok" THEN BlendingModes ELSE {""}

\* buffer.Clear(f)
DoClear ==
    /\ CanCall
    /\ \E f \in 0 .. MaxFrames :
        /\ SetBuffer(Clear(Buffer, f))
        /\ status' = status
        /\ call' = [NoCall EXCEPT !.op = "Clear", !.frame = f]
        /\ ops' = ops + 1

\* buffer.Allocate(w, h): it returns, or `new` throws bad_alloc before any
\* member is assigned.
DoAllocate ==
    /\ CanCall
    /\ \E w \in 0 .. MaxDim, h \in 0 .. MaxDim :
        \E allocOK \in AllocOutcomes(Buffer, w, h) :
            /\ SetBuffer(IF allocOK THEN Allocate(Buffer, w, h) ELSE Buffer)
            /\ status' = status
            /\ call' = [NoCall EXCEPT !.op = "Allocate", !.w = w, !.h = h,
                                      !.alloc = AllocNote(AllocateGuard(Buffer, w, h), allocOK),
                                      !.ret = IF allocOK THEN "void" ELSE "throw"]
            /\ ops' = ops + 1

\* buffer.ShrinkToHalfSize()
DoShrink ==
    /\ CanCall
    /\ \E g \in GarbageWords :
        \E allocOK \in AllocOutcomes(NewBuffer(frames), width \div 2, height \div 2) :
            \E r \in {ShrinkToHalfSize(Buffer, g, allocOK)} :
                /\ SetBuffer(r.buf)
                /\ status' = StatusAfter(r.ret)
                /\ call' = [NoCall EXCEPT
                       !.op = "Shrink",
                       !.alloc = AllocNote(AllocateGuard(NewBuffer(frames), width \div 2,
                                                         height \div 2), allocOK),
                       !.ret = r.ret]
                /\ ops' = ops + 1

\* buffer.Read(data, frame), frame a frame of the buffer.
DoRead ==
    /\ CanCall
    /\ \E ext \in Extensions :
        \E src \in SourcesOf(ext) :
            \E w \in DimsOf(src), h \in DimsOf(src) :
                \E allocOK \in AllocOutcomes(Buffer, w, h) :
                    \E frame \in FramesOf(Buffer, ReachesRows(Buffer, src, w, h, allocOK)),
                       cut \in CutsOf(src, h, ReachesRows(Buffer, src, w, h, allocOK)),
                       blend \in BlendsOf(src, ReachesRows(Buffer, src, w, h, allocOK)) :
                        \E r \in {Read(Buffer, ext, blend, src, w, h, cut, frame, allocOK)} :
                            /\ SetBuffer(r.buf)
                            /\ status' = StatusAfter(r.ret)
                            /\ call' = [op |-> "Read", fmt |-> FormatOf(ext), blend |-> blend,
                                        hdr |-> HeaderParsed(src), w |-> w, h |-> h,
                                        frame |-> frame,
                                        alloc |-> AllocNote(HeaderParsed(src)
                                                            /\ AllocateGuard(Buffer, w, h), allocOK),
                                        ret |-> r.ret, logs |-> r.logs,
                                        wrote |-> r.wrote, premul |-> r.premul]
                            /\ ops' = ops + 1

Next == DoClear \/ DoAllocate \/ DoShrink \/ DoRead

Spec == Init /\ [][Next]_vars

\* A buffer on which only Read is called.
NextRead == DoRead

SpecRead == Init /\ [][NextRead]_vars

\* ------------------------------------------------- Premultiply on its own
\* The bytes the premultiplier is tried on: every alpha, and in each colour
\* byte the ends of the range and values whose product with alpha rounds.
SamplePixels ==
    {<<b0, b1, b2, alpha>> : b0 \in {0, 1, 128, 255}, b1 \in {0, 2, 127, 254, 255},
                             b2 \in {0, 85, 170, 255}, alpha \in 0 .. 255}

\* A one-pixel, one-frame buffer holding a decoded pixel.
InitPremul ==
    /\ \E px \in SamplePixels :
        /\ width = 1
        /\ height = 1
        /\ frames = 1
        /\ pixels = [held |-> TRUE, data |-> <<px>>]
    /\ status = "running"
    /\ call = NoCall
    /\ ops = 0

\* Premultiply(buffer, 0, blend), once, as Read calls it after a decode.
DoPremultiply ==
    /\ call.op = "new"
    /\ \E blend \in PremultiplyModes :
        /\ SetBuffer(Premultiply(Buffer, 0, blend))
        /\ status' = status
        /\ call' = [NoCall EXCEPT !.op = "Premultiply", !.blend = blend, !.premul = 1]
        /\ ops' = ops + 1

NextPremul == DoPremultiply

SpecPremul == InitPremul /\ [][NextPremul]_vars

\* --------------------------------------------- ShrinkToHalfSize on its own
\* Pixel i of fill pattern p: pattern 1 is one colour everywhere, the others
\* differ from pixel to pixel in every byte.
PatternPixel(p, i) ==
    IF p = 1 THEN <<10, 20, 30, 40>>
    ELSE <<(37 * p + 53 * i) % 256, (101 * p + 29 * i + 7) % 256,
           (11 * i * i + p) % 256, (255 + 13 * i * p) % 256>>

\* A fully populated buffer of W x H pixels and F frames.
InitShrink ==
    /\ \E W \in 2 .. MaxShrinkDim, H \in 2 .. MaxShrinkDim, F \in 1 .. MaxShrinkFrames,
          p \in 1 .. NumPatterns :
        /\ width = W
        /\ height = H
        /\ frames = F
        /\ pixels = [held |-> TRUE, data |-> [i \in 1 .. W * H * F |-> PatternPixel(p, i - 1)]]
    /\ status = "running"
    /\ call = NoCall
    /\ ops = 0

NextShrink == DoShrink

SpecShrink == InitShrink /\ [][NextShrink]_vars

\* ----------------------------------------------------------------- claims
BufferVars == <<width, height, frames, pixels>>

\* The pixel at offset off (counted from `pixels`) of the storage before and
\* after a step; storage that did not exist before holds nothing determined.
PixelBefore(off) == IF pixels.held THEN pixels.data[off + 1] ELSE Indet
PixelAfter(off) == pixels'.data[off + 1]

\* C1: Allocate is allocate-once.  An Allocate(w, h) that returns, on a buffer
\* without storage and with frames > 0, w > 0 and h > 0, leaves the buffer
\* with storage, Width() = w, Height() = h and the frame count it had; every
\* other Allocate that returns changes nothing of the buffer, so a second
\* Allocate never changes the dimensions the first fixed.
C1_AllocateOnce ==
    [][(call'.op = "Allocate" /\ call'.ret = "void") =>
        IF ~pixels.held /\ frames > 0 /\ call'.w > 0 /\ call'.h > 0
        THEN /\ pixels'.held
             /\ width' = call'.w
             /\ height' = call'.h
             /\ frames' = frames
        ELSE UNCHANGED BufferVars]_vars

\* C1's case: an Allocate with other, nonzero dimensions has returned on a
\* buffer that holds storage, and the dimensions are still the first ones.
C1_Witness ==
    /\ call.op = "Allocate"
    /\ call.ret = "void"
    /\ pixels.held
    /\ call.w > 0
    /\ call.h > 0
    /\ call.w # width
    /\ call.h # height

\* The number of the two dimensions for which P holds.
CountDims(Pw, Ph) == (IF Pw THEN 1 ELSE 0) + (IF Ph THEN 1 ELSE 0)

\* A Read whose decoder got the header's dimensions, on a buffer that holds
\* storage, and the dimensions are not both the buffer's.
MismatchedRead ==
    /\ call'.op = "Read"
    /\ call'.hdr
    /\ pixels.held
    /\ (call'.w # width \/ call'.h # height)

\* Some frame holds a whole decoded image.  Where only Read is called that
\* is so exactly when a Read has succeeded: a Read that fails writes less than
\* a frame.
SomeFrameDecoded ==
    /\ pixels.held
    /\ \E k \in 0 .. frames - 1 :
        \A off \in k * width * height .. (k + 1) * width * height - 1 :
            pixels.data[off + 1] # Indet

C3_FailedReadChangesNothing ==
    [][(call'.op = "Read" /\ call'.ret = "false") =>
        /\ UNCHANGED BufferVars
        /\ call'.wrote = {}]_vars

\* A pixel premultiplied once, as the arithmetic of it is specified: every
\* colour byte scaled by alpha / 255 and rounded down, the alpha byte by mode.
PremultipliedOnce(px, blend) ==
    <<(px[1] * px[4]) \div 255, (px[2] * px[4]) \div 255, (px[3] * px[4]) \div 255,
      IF blend = "ADDITIVE" THEN 0 ELSE IF blend = "HALF_ADDITIVE" THEN px[4] \div 4 ELSE px[4]>>

\* The pixel a successful Read leaves at (x, y) of its frame: the decoder's,
\* premultiplied once when Read called Premultiply.
ExpectedPixel(x, y) ==
    IF call.premul = 1
    THEN PremultipliedOnce(DecodedPixel(call.fmt = "jpg", x, y), call.blend)
    ELSE DecodedPixel(call.fmt = "jpg", x, y)

\* C4: Read calls Premultiply, once and with the descriptor's mode, exactly
\* when the decode succeeded, the mode is not PREMULTIPLIED_ALPHA and the file
\* is a PNG or a JPEG read with ADDITIVE; otherwise Premultiply is not called
\* and the frame holds what the decoder wrote.
C4_PremultiplyCondition ==
    call.op = "Read" =>
        /\ call.premul \in {0, 1}
        /\ call.premul = 1 <=>
            /\ call.ret = "true"
            /\ call.blend # "PREMULTIPLIED_ALPHA"
            /\ (call.fmt = "png" \/ (call.fmt = "jpg" /\ call.blend = "ADDITIVE"))
        /\ call.ret = "true" =>
            \A y \in 0 .. height - 1, x \in 0 .. width - 1 :
                pixels.data[width * (y + height * call.frame) + x + 1] = ExpectedPixel(x, y)

\* C4's case: a JPEG read with ADDITIVE has been premultiplied.
C4_Witness ==
    /\ call.op = "Read"
    /\ call.ret = "true"
    /\ call.fmt = "jpg"
    /\ call.blend = "ADDITIVE"
    /\ call.premul = 1

\* C5: when `new` throws inside the Allocate of a Read, Read logs the one
\* allocation error and ends by throwing (neither true nor false); the buffer
\* stays without storage, its dimensions and frame count as they were, no
\* pixel is written and Premultiply is not called.
C5_AllocationFailure ==
    [][(call'.op = "Read" /\ call'.alloc = "failed") =>
        /\ call'.ret = "throw"
        /\ call'.logs = <<"alloc">>
        /\ ~pixels'.held
        /\ UNCHANGED BufferVars
        /\ call'.wrote = {}
        /\ call'.premul = 0]_vars

\* C5's case: a Read of a JPEG has ended by throwing after `new` failed.
C5_Witness ==
    /\ call.op = "Read"
    /\ call.fmt = "jpg"
    /\ call.alloc = "failed"
    /\ call.ret = "throw"

\* C8 as stated: a buffer that holds no storage reports Width() = 0 and
\* Height() = 0.
C8_NoStorageNoDimensions == ~pixels.held => (width = 0 /\ height = 0)

\* C9: the storage is absent, or it holds exactly Width() x Height() x
\* Frames() pixels with all three greater than 0.
C9_StorageMatchesDimensions ==
    \/ ~pixels.held
    \/ /\ Len(pixels.data) = width * height * frames
       /\ width > 0
       /\ height > 0
       /\ frames > 0

\* C9's case: ShrinkToHalfSize has halved a buffer of two frames to 1 x 1,
\* and the storage is the two pixels.
C9_Witness ==
    /\ call.op = "Shrink"
    /\ pixels.held
    /\ width = 1
    /\ height = 1
    /\ frames = 2
    /\ Len(pixels.data) = 2

\* The offsets of frame k of a buffer of W x H pixels.
FrameOffsets(k, W, H) == k * W * H .. (k + 1) * W * H - 1

\* C10: a successful Read into frame k writes exactly the offsets of frame
\* k, row y at offset Width() * (y + Height() * k); after it (decode and
\* premultiply) every pixel outside frame k is as it was, and the frame holds
\* the image, premultiplied at most once.
C10_ReadWritesItsFrameOnly ==
    [][(call'.op = "Read" /\ call'.ret = "true") =>
        /\ call'.frame < frames'
        /\ call'.wrote = FrameOffsets(call'.frame, width', height')
        /\ \A off \in 0 .. Len(pixels'.data) - 1 :
            off \notin FrameOffsets(call'.frame, width', height') =>
                PixelAfter(off) = PixelBefore(off)
        /\ \A y \in 0 .. height' - 1, x \in 0 .. width' - 1 :
            PixelAfter(width' * (y + height' * call'.frame) + x) = ExpectedPixel(x, y)']_vars

\* C10's case: a Read into frame 1 has succeeded on a buffer whose frame 0 an
\* earlier Read decoded.
C10_Witness ==
    /\ call.op = "Read"
    /\ call.ret = "true"
    /\ call.frame = 1
    /\ pixels.data[1] # Indet

\* C6: Premultiply leaves in each colour byte floor(c * alpha / 255) of the
\* input byte c and the input alpha, which is never more than c, and in the
\* alpha byte the input alpha (default mode), 0 (ADDITIVE) or floor(alpha / 4)
\* (HALF_ADDITIVE).
C6_PremultiplyArithmetic ==
    [][call'.op = "Premultiply" =>
        /\ \A c \in 1 .. 3 :
            /\ pixels'.data[1][c] = (pixels.data[1][c] * pixels.data[1][4]) \div 255
            /\ pixels'.data[1][c] <= pixels.data[1][c]
        /\ pixels'.data[1][4] =
            IF call'.blend = "ADDITIVE" THEN 0
            ELSE IF call'.blend = "HALF_ADDITIVE" THEN pixels.data[1][4] \div 4
            ELSE pixels.data[1][4]]_vars

\* C6's case: a pixel such as (128, 127, 85) with alpha 129 has been
\* premultiplied in HALF_ADDITIVE mode.
C6_Witness ==
    /\ call.op = "Premultiply"
    /\ call.blend = "HALF_ADDITIVE"
    /\ pixels.data[1] = <<64, 64, 43, 32>>

\* The pixel (x, y) of frame f of the buffer before a step.
InputPixel(x, y, f) == pixels.data[width * (y + height * f) + x + 1]

\* Output pixel (x, y) of frame f is, byte by byte, the rounded mean of the
\* four input pixels (2x, 2y), (2x+1, 2y), (2x, 2y+1), (2x+1, 2y+1) of frame f.
MeanOfFrameWindow(x, y, f) ==
    \A c \in 1 .. 4 :
        pixels'.data[width' * (y + height' * f) + x + 1][c] =
            (InputPixel(2 * x, 2 * y, f)[c] + InputPixel(2 * x + 1, 2 * y, f)[c]
             + InputPixel(2 * x, 2 * y + 1, f)[c] + InputPixel(2 * x + 1, 2 * y + 1, f)[c]
             + 2) \div 4

\* A ShrinkToHalfSize that returns, on a populated buffer of at least 2 x 2.
ShrinkOfPopulated ==
    /\ call'.op = "Shrink"
    /\ call'.ret = "void"
    /\ pixels.held
    /\ width >= 2
    /\ height >= 2

\* C7 as stated: ShrinkToHalfSize leaves floor(W/2) x floor(H/2) pixels and
\* the same frames, every output pixel the rounded mean of its 2 x 2 window
\* of the same frame.
C7_ShrinkAveragesWithinFrame ==
    [][ShrinkOfPopulated =>
        /\ width' = width \div 2
        /\ height' = height \div 2
        /\ frames' = frames
        /\ pixels'.held
        /\ \A f \in 0 .. frames - 1, y \in 0 .. height' - 1, x \in 0 .. width' - 1 :
            MeanOfFrameWindow(x, y, f)]_vars

\* What the code does do: the same, for the frames that start at an even
\* row of the storage (all of them when the height is even, frame 0 and
\* every second frame when it is odd).
ShrinkAveragesWithinEvenFrames ==
    [][ShrinkOfPopulated =>
        /\ width' = width \div 2
        /\ height' = height \div 2
        /\ frames' = frames
        /\ pixels'.held
        /\ \A f \in 0 .. frames - 1, y \in 0 .. height' - 1, x \in 0 .. width' - 1 :
            (height * f) % 2 = 0 => MeanOfFrameWindow(x, y, f)]_vars

====
